---- MODULE Spec2Model ----
(***************************************************************************)
(* Matching engine, order store, wallet ledger and cancel route of the     *)
(* exchange.  The engine is TradingEngine (src/unnamed/part_004), the      *)
(* cancel route is router.delete('/order/:orderId') (src/unnamed/part_003),*)
(* the documents are Order, Trade and Wallet (src/NX2/src/models).         *)
(* The subscribers are those of WebSocketService (src/NX2/src/services).   *)
(* The NX_III TradingEngineService, with its conditional orders and the    *)
(* WebSocketGateway, is modelled next to it.                               *)
(*                                                                         *)
(* Quantities and prices are integers.  Fee amounts are kept in 1/1000 of  *)
(* a quote unit, so that quantity * price * 0.001 is exact.                *)
(***************************************************************************)
EXTENDS Integers, Sequences, FiniteSets, TLC

VARIABLES orderBooks, orders, trades, wallets, response, tradeObs,
          calls, events, cancels, clients, gateway, redis,
          walletDocs, withdrawals, accounts, now

vars == <<orderBooks, orders, trades, wallets, response, tradeObs,
          calls, events, cancels, clients, gateway, redis,
          walletDocs, withdrawals, accounts, now>>

\* The engine's books, the document stores and the route's answer
storeVars == <<orderBooks, orders, trades, wallets, response, tradeObs>>

\* The placeOrder calls in flight, the events emitted and the cancel requests
\* in flight (kept by the await-by-await specifications only)
asyncVars == <<calls, events, cancels>>

\* WebSocketService.clients (NX2)
pushVars == <<clients>>

\* WebSocketGateway.clients and the conditional orders in redis (NX_III)
nx3Vars == <<gateway, redis>>

\* The wallet documents of WalletService with its withdraw calls in flight,
\* and the User documents of AuthService with the clock they are read against
serviceVars == <<walletDocs, withdrawals, accounts, now>>

\* ------------------------------------------------------------------ bounds

\* Order documents the store may hold.
MaxOrders == 3

\* placeOrder calls the await-by-await specification starts.
MaxCalls == 3

\* placeOrder calls started in the specification that adds the cancel route.
MaxRaceCalls == 2

\* placeOrder calls started in the specification that adds the subscribers.
MaxPubCalls == 2

\* Messages a client's connection has been sent before it stops sending
\* subscribe and unsubscribe requests.
MaxReceived == 3

\* Order documents the NX_III service stores.
MaxNx3Orders == 3

\* Amount of every currency each wallet holds after construction.
InitialDeposit == 4

Users == {"u1", "u2"}

Quantities == {1, 2}

Prices == {1, 2}

\* ------------------------------------------------------- program constants

\* fee.makerFee = quantity * price * 0.001, in 1/1000 of a quote unit
MakerFeePerMille == 1

\* fee.takerFee = quantity * price * 0.002, in 1/1000 of a quote unit
TakerFeePerMille == 2

\* initializeOrderBooks: the supported pairs, each as <<base, quote>>, which
\* is what symbol.split('/') yields
supportedPairs ==
  { <<"BTC", "USDT">>, <<"ETH", "USDT">>, <<"BNB", "USDT">>, <<"SOL", "USDT">>,
    <<"ADA", "USDT">>, <<"XRP", "USDT">>, <<"DOT", "USDT">>, <<"DOGE", "USDT">> }

\* The pair the orders of this model are placed on.
BTCUSDT == <<"BTC", "USDT">>

\* The symbols an order may name.
InputSymbols == {BTCUSDT}

\* The books the model keeps: those of the supported pairs an order may name
\* (the book of a pair no order names stays as constructed).
TradedPairs == supportedPairs \cap InputSymbols

Currencies == {"BTC", "USDT"}

\* initializeBlockchainClients: the currencies WalletService has a client for
ChainCurrencies == {"ETH", "SOL"}

\* orderSchema.timeInForce and orderSchema.postOnly with their defaults
DefaultFlags == [timeInForce |-> "GTC", postOnly |-> FALSE]

AllFlags ==
  { [timeInForce |-> "GTC", postOnly |-> FALSE],
    [timeInForce |-> "IOC", postOnly |-> FALSE],
    [timeInForce |-> "FOK", postOnly |-> FALSE],
    [timeInForce |-> "GTC", postOnly |-> TRUE] }

\* ------------------------------------------------------------------ helpers

Min(a, b) == IF a <= b THEN a ELSE b

Max(a, b) == IF a >= b THEN a ELSE b

\* A book side is a JavaScript Map price -> quantity: a sequence of entries
\* in insertion order, at most one entry per price.
HasPrice(levels, price) == \E i \in 1..Len(levels) : levels[i].price = price

\* Map.get(price) || 0
GetQty(levels, price) ==
  IF HasPrice(levels, price)
  THEN (CHOOSE l \in {levels[i] : i \in 1..Len(levels)} : l.price = price).quantity
  ELSE 0

\* Map.set(price, quantity): an existing key keeps its place, a new key goes last
SetQty(levels, price, quantity) ==
  IF HasPrice(levels, price)
  THEN [i \in 1..Len(levels) |->
          IF levels[i].price = price
          THEN [price |-> price, quantity |-> quantity]
          ELSE levels[i]]
  ELSE Append(levels, [price |-> price, quantity |-> quantity])

\* orderSchema.virtual('remainingQuantity')
remainingQuantity(o) == o.quantity - o.filledQuantity

\* orderSchema.pre('save'): the status the document is stored with
preSave(o) ==
  IF o.filledQuantity >= o.quantity THEN [o EXCEPT !.status = "filled"]
  ELSE IF o.filledQuantity > 0 THEN [o EXCEPT !.status = "partially_filled"]
  ELSE o

\* ------------------------------------------------------------------ engine

\* validateOrder with the test of a limit order's price lost.
validateOrderAnyPrice(orderData) ==
  IF orderData.quantity = 0
  THEN [valid |-> FALSE, error |-> "Missing required fields: quantity"]
  ELSE IF orderData.quantity <= 0
  THEN [valid |-> FALSE, error |-> "Quantity must be positive"]
  ELSE [valid |-> TRUE, error |-> ""]

\* validateOrder: 0 stands for an absent (falsy) quantity or price
validateOrder(orderData) ==
  IF orderData.quantity = 0
  THEN [valid |-> FALSE, error |-> "Missing required fields: quantity"]
  ELSE IF orderData.quantity <= 0
  THEN [valid |-> FALSE, error |-> "Quantity must be positive"]
  ELSE IF orderData.type = "limit" /\ orderData.price <= 0
  THEN [valid |-> FALSE, error |-> "Limit orders require positive price"]
  ELSE [valid |-> TRUE, error |-> ""]

\* orderSchema.leverage: the default 1 when the order data carry none
Leverage(orderData) ==
  IF "leverage" \in DOMAIN orderData THEN orderData.leverage ELSE 1

\* orderSchema.clientOrderId: an optional string ("" when the order data
\* carry none), indexed but not unique
ClientOrderId(orderData) ==
  IF "clientOrderId" \in DOMAIN orderData THEN orderData.clientOrderId ELSE ""

\* The validators save() runs on a new document: quantity min 0, price min 0,
\* leverage min 1 max 100
SchemaValid(order) ==
  /\ order.quantity >= 0
  /\ order.price >= 0
  /\ order.leverage >= 1
  /\ order.leverage <= 100

\* createOrderRecord: new Order({orderId, ...orderData}) with the schema
\* defaults, stored through save()
createOrderRecord(orderData, orderId) ==
  preSave([orderId          |-> orderId,
           userId           |-> orderData.userId,
           symbol           |-> orderData.symbol,
           type             |-> orderData.type,
           side             |-> orderData.side,
           quantity         |-> orderData.quantity,
           price            |-> orderData.price,
           filledQuantity   |-> 0,
           averageFillPrice |-> 0,
           status           |-> "open",
           timeInForce      |-> orderData.timeInForce,
           postOnly         |-> orderData.postOnly,
           leverage         |-> Leverage(orderData),
           clientOrderId    |-> ClientOrderId(orderData)])

\* The walk's test with the sell half lost: a sell taker is never stopped.
PriceGuardBuyOnly(order, price) ==
  order.side = "buy" /\ price > order.price

\* processLimitOrder, the test that ends the walk of the opposite side
PriceGuard(order, price) ==
  \/ (order.side = "buy" /\ price > order.price)
  \/ (order.side = "sell" /\ price < order.price)

\* The for-loop of processLimitOrder (guarded) and of processMarketOrder
\* (not guarded) over the entries of the opposite side, in Map order.  Gives
\* the side after the loop, the quantity left and the fills in order; each
\* fill also records the side as it stood when the fill was made.
RECURSIVE MatchLevels(_, _, _, _)
MatchLevels(levels, remaining, order, guarded) ==
  IF levels = <<>> \/ remaining <= 0
  THEN [levels |-> levels, remaining |-> remaining, fills |-> <<>>]
  ELSE LET price    == Head(levels).price
           quantity == Head(levels).quantity
       IN IF guarded /\ PriceGuard(order, price)
          THEN [levels |-> levels, remaining |-> remaining, fills |-> <<>>]
          ELSE LET fillQuantity == Min(remaining, quantity)
                   rest == MatchLevels(Tail(levels), remaining - fillQuantity,
                                       order, guarded)
                   kept == IF quantity = fillQuantity
                           THEN <<>>
                           ELSE << [price |-> price,
                                    quantity |-> quantity - fillQuantity] >>
               IN [levels    |-> kept \o rest.levels,
                   remaining |-> rest.remaining,
                   fills     |-> << [price |-> price, quantity |-> fillQuantity,
                                     sideBefore |-> levels] >> \o rest.fills]

\* executeTrade: the Trade document of one fill
NewTrade(order, fill, tradeId) ==
  [tradeId      |-> tradeId,
   symbol       |-> order.symbol,
   price        |-> fill.price,
   quantity     |-> fill.quantity,
   side         |-> order.side,
   takerOrderId |-> order.orderId,
   makerOrderId |-> "maker_order_id",
   takerUserId  |-> order.userId,
   makerUserId  |-> order.userId,
   fee          |-> [makerFee    |-> fill.quantity * fill.price * MakerFeePerMille,
                     takerFee    |-> fill.quantity * fill.price * TakerFeePerMille,
                     feeCurrency |-> "USDT"]]

\* The taker's update with the increment doubled.
FillOrderDocTwice(stored, order, fill) ==
  [stored EXCEPT
     !.filledQuantity = @ + 2 * fill.quantity,
     !.averageFillPrice =
        ((order.averageFillPrice * order.filledQuantity)
           + (fill.price * fill.quantity))
        \div (order.filledQuantity + fill.quantity)]

\* executeTrade: Order.updateOne($inc filledQuantity, averageFillPrice).  The
\* average is computed from the in-memory document `order`, whose
\* filledQuantity and averageFillPrice stay at their defaults; updateOne runs
\* no save hook, so the stored status is untouched.
FillOrderDoc(stored, order, fill) ==
  [stored EXCEPT
     !.filledQuantity = @ + fill.quantity,
     !.averageFillPrice =
        ((order.averageFillPrice * order.filledQuantity)
           + (fill.price * fill.quantity))
        \div (order.filledQuantity + fill.quantity)]

\* updateBalances: one Wallet.updateOne on the wallet of order.userId
updateBalances(w, order, fill) ==
  LET baseCurrency  == order.symbol[1]
      quoteCurrency == order.symbol[2]
      uid == order.userId
  IN IF order.side = "buy"
     THEN [w EXCEPT
             ![uid][quoteCurrency].available = @ - fill.quantity * fill.price,
             ![uid][baseCurrency].available  = @ + fill.quantity]
     ELSE [w EXCEPT
             ![uid][baseCurrency].available  = @ - fill.quantity,
             ![uid][quoteCurrency].available = @ + fill.quantity * fill.price]

\* updateMarketData; low24h starts at Infinity, written 0 here
updateMarketData(orderBook, price, quantity) ==
  [orderBook EXCEPT
     !.lastPrice = price,
     !.volume24h = @ + price * quantity,
     !.high24h   = Max(@, price),
     !.low24h    = IF @ = 0 THEN price ELSE Min(@, price)]

\* The executeTrade calls of one order, in the order of its fills
RECURSIVE ApplyFills(_, _, _)
ApplyFills(st, order, fills) ==
  IF fills = <<>> THEN st
  ELSE LET f == Head(fills)
           next ==
             [orders  |-> [st.orders EXCEPT
                             ![order.orderId] = FillOrderDoc(@, order, f)],
              trades  |-> Append(st.trades,
                                 NewTrade(order, f, Len(st.trades) + 1)),
              wallets |-> updateBalances(st.wallets, order, f),
              book    |-> updateMarketData(st.book, f.price, f.quantity),
              obs     |-> Append(st.obs, [sideBefore |-> f.sideBefore])]
       IN ApplyFills(next, order, Tail(fills))

\* router.post('/order'): {success, orderId, status, filled}; the status is
\* that of the in-memory document, which no fill touches
Placed(order, filled) ==
  [op |-> "placeOrder", ok |-> TRUE, error |-> "", orderId |-> order.orderId,
   status |-> order.status, filled |-> filled]

\* A route's answer {success: false, error}
Thrown(op, error) ==
  [op |-> op, ok |-> FALSE, error |-> error, orderId |-> 0, status |-> "",
   filled |-> 0]

oppositeSide(order) == IF order.side = "buy" THEN "asks" ELSE "bids"

sameSide(order) == IF order.side = "buy" THEN "bids" ELSE "asks"

\* processLimitOrder on a supported pair
processLimitOrder(order) ==
  LET orderBook == orderBooks[order.symbol]
      m  == MatchLevels(orderBook[oppositeSide(order)], order.quantity, order, TRUE)
      st == ApplyFills([orders |-> Append(orders, order), trades |-> trades,
                        wallets |-> wallets, book |-> orderBook, obs |-> tradeObs],
                       order, m.fills)
      matched == [st.book EXCEPT ![oppositeSide(order)] = m.levels]
      rested  == IF m.remaining > 0
                 THEN [matched EXCEPT ![sameSide(order)] =
                         SetQty(@, order.price,
                                GetQty(@, order.price) + m.remaining)]
                 ELSE matched
  IN /\ orderBooks' = [orderBooks EXCEPT ![order.symbol] = rested]
     /\ orders'   = st.orders
     /\ trades'   = st.trades
     /\ wallets'  = st.wallets
     /\ tradeObs' = st.obs
     /\ response' = Placed(order, order.quantity - m.remaining)

\* processMarketOrder on a supported pair
processMarketOrder(order) ==
  LET orderBook == orderBooks[order.symbol]
      m  == MatchLevels(orderBook[oppositeSide(order)], order.quantity, order, FALSE)
      st == ApplyFills([orders |-> Append(orders, order), trades |-> trades,
                        wallets |-> wallets, book |-> orderBook, obs |-> tradeObs],
                       order, m.fills)
      matched == [st.book EXCEPT ![oppositeSide(order)] = m.levels]
      \* Order.updateOne({status: 'partially_filled', filledQuantity})
      stored  == IF m.remaining > 0
                 THEN [st.orders EXCEPT
                         ![order.orderId].status = "partially_filled",
                         ![order.orderId].filledQuantity =
                            order.quantity - m.remaining]
                 ELSE st.orders
  IN /\ orderBooks' = [orderBooks EXCEPT ![order.symbol] = matched]
     /\ orders'   = stored
     /\ trades'   = st.trades
     /\ wallets'  = st.wallets
     /\ tradeObs' = st.obs
     /\ response' = Placed(order, order.quantity - m.remaining)

\* placeOrder
placeOrder(orderData) ==
  IF ~validateOrder(orderData).valid
  THEN /\ response' = Thrown("placeOrder", validateOrder(orderData).error)
       /\ UNCHANGED <<orderBooks, orders, trades, wallets, tradeObs>>
  ELSE IF orderData.type = "market" /\ orderData.side = "buy"
  THEN \* this.checkBalance is not a method of the class: the call throws
       /\ response' = Thrown("placeOrder", "this.checkBalance is not a function")
       /\ UNCHANGED <<orderBooks, orders, trades, wallets, tradeObs>>
  ELSE /\ Len(orders) < MaxOrders
       /\ LET order == createOrderRecord(orderData, Len(orders) + 1)
          IN IF ~SchemaValid(order)
             THEN \* save() rejects the document with a ValidationError
                  /\ response' = Thrown("placeOrder", "Order validation failed")
                  /\ UNCHANGED <<orderBooks, orders, trades, wallets, tradeObs>>
             ELSE IF order.symbol \notin supportedPairs
             THEN \* the document is stored, then the processing throws:
                  \* processLimitOrder by its own test, processMarketOrder
                  \* by reading a side of the book it did not find
                  /\ orders' = Append(orders, order)
                  /\ response' = Thrown("placeOrder",
                                   IF order.type = "market"
                                   THEN "Cannot read properties of undefined"
                                   ELSE "Unsupported trading pair")
                  /\ UNCHANGED <<orderBooks, trades, wallets, tradeObs>>
             ELSE IF order.type = "limit" THEN processLimitOrder(order)
             ELSE IF order.type = "market" THEN processMarketOrder(order)
             ELSE /\ orders' = Append(orders, order)
                  /\ response' = Thrown("placeOrder", "Unsupported order type")
                  /\ UNCHANGED <<orderBooks, trades, wallets, tradeObs>>

\* ------------------------------------------------------------ cancel route

\* The cancel route with the lookup by orderId alone.
cancelOrderAnyOwner(userId, orderId) ==
  IF ~(orderId \in 1..Len(orders))
  THEN /\ response' = Thrown("cancel", "Order not found")
       /\ UNCHANGED <<orderBooks, orders, trades, wallets, tradeObs>>
  ELSE IF orders[orderId].status # "open"
  THEN /\ response' = Thrown("cancel", "Only open orders can be cancelled")
       /\ UNCHANGED <<orderBooks, orders, trades, wallets, tradeObs>>
  ELSE LET order == orders[orderId]
           baseCurrency == order.symbol[1]
       IN /\ orders' = [orders EXCEPT
                          ![orderId] = preSave([order EXCEPT !.status = "cancelled"])]
          /\ wallets' = [wallets EXCEPT
                           ![userId][baseCurrency].available =
                              @ + remainingQuantity(order),
                           ![userId][baseCurrency].locked =
                              @ - remainingQuantity(order)]
          /\ response' = [op |-> "cancel", ok |-> TRUE, error |-> "",
                          orderId |-> 0, status |-> "", filled |-> 0]
          /\ UNCHANGED <<orderBooks, trades, tradeObs>>

\* router.delete('/order/:orderId') for the authenticated user userId
cancelOrder(userId, orderId) ==
  IF ~(orderId \in 1..Len(orders) /\ orders[orderId].userId = userId)
  THEN /\ response' = Thrown("cancel", "Order not found")
       /\ UNCHANGED <<orderBooks, orders, trades, wallets, tradeObs>>
  ELSE IF orders[orderId].status # "open"
  THEN /\ response' = Thrown("cancel", "Only open orders can be cancelled")
       /\ UNCHANGED <<orderBooks, orders, trades, wallets, tradeObs>>
  ELSE LET order == orders[orderId]
           baseCurrency == order.symbol[1]
       IN /\ orders' = [orders EXCEPT
                          ![orderId] = preSave([order EXCEPT !.status = "cancelled"])]
          /\ wallets' = [wallets EXCEPT
                           ![userId][baseCurrency].available =
                              @ + remainingQuantity(order),
                           ![userId][baseCurrency].locked =
                              @ - remainingQuantity(order)]
          /\ response' = [op |-> "cancel", ok |-> TRUE, error |-> "",
                          orderId |-> 0, status |-> "", filled |-> 0]
          /\ UNCHANGED <<orderBooks, trades, tradeObs>>

\* ------------------------------------------- placeOrder, one await at a time

\* A book side's entry index of a price, 0 when the Map has no such key
IndexOf(levels, price) ==
  IF HasPrice(levels, price)
  THEN CHOOSE i \in 1..Len(levels) : levels[i].price = price
  ELSE 0

\* Map.delete(price) that leaves the entry in place with quantity 0.
DeleteKeyZeroes(levels, price) ==
  [i \in 1..Len(levels) |->
     IF levels[i].price = price
     THEN [levels[i] EXCEPT !.quantity = 0]
     ELSE levels[i]]

\* Map.delete(price)
DeleteKey(levels, price) ==
  SelectSeq(levels, LAMBDA l : l.price # price)

\* this.emit('trade_executed', trade); `by` is the trade's takerOrderId
TradeExecuted(trade) ==
  [type |-> "trade_executed", symbol |-> trade.symbol, by |-> trade.takerOrderId,
   tradeId |-> trade.tradeId]

\* this.emit('orderbook_update', {symbol, orderBook}); `by` names the order
\* whose processing made the call
OrderbookUpdate(order) ==
  [type |-> "orderbook_update", symbol |-> order.symbol, by |-> order.orderId]

\* this.emit('order_processed', {order, result})
OrderProcessed(order) ==
  [type |-> "order_processed", symbol |-> order.symbol, by |-> order.orderId]

\* The locals of a placeOrder call that has stored its order document
NewCall(order) ==
  [pc |-> "process", order |-> order, remaining |-> order.quantity,
   cursor |-> 0, price |-> 0, quantity |-> 0, fill |-> 0, tradeId |-> 0]

\* A call that has returned
Returned(c) ==
  [pc |-> "done", order |-> c.order, remaining |-> c.remaining,
   cursor |-> 0, price |-> 0, quantity |-> 0, fill |-> 0, tradeId |-> 0]

\* Map.delete on the side `side` of a book while calls iterate it: a live Map
\* iterator that has passed the deleted entry has one entry less behind it
AfterDelete(cs, symbol, side, index) ==
  [j \in DOMAIN cs |->
     IF /\ cs[j].pc \in {"trade_saved", "order_updated", "balances_updated"}
        /\ cs[j].order.symbol = symbol
        /\ oppositeSide(cs[j].order) = side
        /\ index > 0
        /\ cs[j].cursor >= index
     THEN [cs[j] EXCEPT !.cursor = @ - 1]
     ELSE cs[j]]

\* Finish with the whole quantity of a limit order put in the book, whatever
\* it filled.
FinishRestsAll(k, cs, book, evs) ==
  LET c == cs[k]
      order == c.order
      rested == IF order.type = "limit" /\ c.remaining > 0
                THEN [book EXCEPT ![sameSide(order)] =
                        SetQty(@, order.price,
                               GetQty(@, order.price) + order.quantity)]
                ELSE book
  IN /\ orderBooks' = [orderBooks EXCEPT ![order.symbol] = rested]
     /\ events' = evs \o <<OrderbookUpdate(order), OrderProcessed(order)>>
     /\ calls' = [cs EXCEPT ![k] = Returned(c)]
     /\ response' = Placed(order, order.quantity - c.remaining)
     /\ UNCHANGED <<orders, trades, tradeObs>>

\* The end of processLimitOrder / processMarketOrder: the remainder of a
\* limit order rests, the book update and order_processed are emitted, the
\* route answers
Finish(k, cs, book, evs) ==
  LET c == cs[k]
      order == c.order
      rested == IF order.type = "limit" /\ c.remaining > 0
                THEN [book EXCEPT ![sameSide(order)] =
                        SetQty(@, order.price,
                               GetQty(@, order.price) + c.remaining)]
                ELSE book
  IN /\ orderBooks' = [orderBooks EXCEPT ![order.symbol] = rested]
     /\ events' = evs \o <<OrderbookUpdate(order), OrderProcessed(order)>>
     /\ calls' = [cs EXCEPT ![k] = Returned(c)]
     /\ response' = Placed(order, order.quantity - c.remaining)
     /\ UNCHANGED <<orders, trades, tradeObs>>

\* The head of the for-loop over the opposite side, up to the next await:
\* either the next entry is taken and executeTrade stores its Trade
\* (await trade.save()), or the loop ends
Continue(k, cs, book, evs) ==
  LET c == cs[k]
      order == c.order
      side == book[oppositeSide(order)]
      i == c.cursor + 1
  IN IF /\ i <= Len(side)
        /\ c.remaining > 0
        /\ ~(order.type = "limit" /\ PriceGuard(order, side[i].price))
     THEN LET fillQuantity == Min(c.remaining, side[i].quantity)
              fill == [price |-> side[i].price, quantity |-> fillQuantity,
                       sideBefore |-> side]
          IN /\ calls' = [cs EXCEPT ![k] =
                            [c EXCEPT !.pc = "trade_saved", !.cursor = i,
                                      !.price = side[i].price,
                                      !.quantity = side[i].quantity,
                                      !.fill = fillQuantity,
                                      !.tradeId = Len(trades) + 1]]
             /\ trades' = Append(trades, NewTrade(order, fill, Len(trades) + 1))
             /\ tradeObs' = Append(tradeObs, [sideBefore |-> side])
             /\ orderBooks' = [orderBooks EXCEPT ![order.symbol] = book]
             /\ events' = evs
             /\ UNCHANGED <<orders, response>>
     ELSE IF order.type = "market" /\ c.remaining > 0
     THEN \* await Order.updateOne({status: 'partially_filled', filledQuantity})
          /\ orders' = [orders EXCEPT
                          ![order.orderId].status = "partially_filled",
                          ![order.orderId].filledQuantity =
                             order.quantity - c.remaining]
          /\ calls' = [cs EXCEPT ![k].pc = "remainder"]
          /\ orderBooks' = [orderBooks EXCEPT ![order.symbol] = book]
          /\ events' = evs
          /\ UNCHANGED <<trades, tradeObs, response>>
     ELSE Finish(k, cs, book, evs)

\* placeOrder up to `await order.save()` in createOrderRecord
StepCreate(orderData) ==
  IF ~validateOrder(orderData).valid
  THEN /\ response' = Thrown("placeOrder", validateOrder(orderData).error)
       /\ UNCHANGED <<orderBooks, orders, trades, wallets, tradeObs, calls, events>>
  ELSE IF orderData.type = "market" /\ orderData.side = "buy"
  THEN /\ response' = Thrown("placeOrder", "this.checkBalance is not a function")
       /\ UNCHANGED <<orderBooks, orders, trades, wallets, tradeObs, calls, events>>
  ELSE /\ Len(orders) < MaxCalls
       /\ LET order == createOrderRecord(orderData, Len(orders) + 1)
          IN IF ~SchemaValid(order)
             THEN /\ response' = Thrown("placeOrder", "Order validation failed")
                  /\ UNCHANGED <<orderBooks, orders, trades, wallets, tradeObs,
                                 calls, events>>
             ELSE /\ orders' = Append(orders, order)
                  /\ calls' = Append(calls, NewCall(order))
                  /\ UNCHANGED <<orderBooks, trades, wallets, tradeObs,
                                 response, events>>

\* placeOrder after createOrderRecord: the switch on order.type and the
\* start of processLimitOrder / processMarketOrder
StepProcess(k) ==
  /\ calls[k].pc = "process"
  /\ LET order == calls[k].order
     IN IF order.symbol \notin supportedPairs
        THEN /\ response' = Thrown("placeOrder", "Unsupported trading pair")
             /\ calls' = [calls EXCEPT ![k] = Returned(@)]
             /\ UNCHANGED <<orderBooks, orders, trades, tradeObs, events>>
        ELSE Continue(k, calls, orderBooks[order.symbol], events)
  /\ UNCHANGED wallets

\* executeTrade: await Order.updateOne($inc filledQuantity, averageFillPrice)
StepOrderUpdate(k) ==
  /\ calls[k].pc = "trade_saved"
  /\ LET c == calls[k]
         fill == [price |-> c.price, quantity |-> c.fill]
     IN orders' = [orders EXCEPT
                     ![c.order.orderId] = FillOrderDoc(@, c.order, fill)]
  /\ calls' = [calls EXCEPT ![k].pc = "order_updated"]
  /\ UNCHANGED <<orderBooks, trades, wallets, response, tradeObs, events>>

\* executeTrade: await this.updateBalances(order, trade)
StepBalances(k) ==
  /\ calls[k].pc = "order_updated"
  /\ LET c == calls[k]
         fill == [price |-> c.price, quantity |-> c.fill]
     IN wallets' = updateBalances(wallets, c.order, fill)
  /\ calls' = [calls EXCEPT ![k].pc = "balances_updated"]
  /\ UNCHANGED <<orderBooks, orders, trades, response, tradeObs, events>>

\* The rest of executeTrade (updateMarketData, emit trade_executed) and of
\* the loop body: the entry read before the awaits is deleted or rewritten
\* with the quantity read then; the loop goes on
StepTradeDone(k) ==
  /\ calls[k].pc = "balances_updated"
  /\ LET c == calls[k]
         order == c.order
         opp == oppositeSide(order)
         book == updateMarketData(orderBooks[order.symbol], c.price, c.fill)
         trade == trades[c.tradeId]
         deleted == c.quantity = c.fill
         written == IF deleted
                    THEN [book EXCEPT ![opp] = DeleteKey(@, c.price)]
                    ELSE [book EXCEPT ![opp] = SetQty(@, c.price, c.quantity - c.fill)]
         cs == IF deleted
               THEN AfterDelete(calls, order.symbol, opp, IndexOf(book[opp], c.price))
               ELSE calls
     IN Continue(k, [cs EXCEPT ![k].remaining = @ - c.fill], written,
                 Append(events, TradeExecuted(trade)))
  /\ UNCHANGED wallets

\* processMarketOrder after the remainder's Order.updateOne
StepRemainder(k) ==
  /\ calls[k].pc = "remainder"
  /\ Finish(k, calls, orderBooks[calls[k].order.symbol], events)
  /\ UNCHANGED wallets

\* ------------------------------------------------ WebSocketService (NX2)

\* The channel names `trades:${symbol}` and `orderbook:${symbol}`
TradesChannel(symbol) == <<"trades", symbol>>

OrderbookChannel(symbol) == <<"orderbook", symbol>>

Channels ==
  {TradesChannel(s) : s \in InputSymbols} \cup {OrderbookChannel(s) : s \in InputSymbols}

\* The channel the listener of an engine event broadcasts on; order_processed
\* has no listener
ChannelOf(e) ==
  IF e.type = "trade_executed" THEN TradesChannel(e.symbol)
  ELSE IF e.type = "orderbook_update" THEN OrderbookChannel(e.symbol)
  ELSE <<"none", e.symbol>>

\* The message the listener sends: {type: 'trade', data: trade} or
\* {type: 'orderbook', data: data.orderBook}; `by` as in the event
MessageOf(e) ==
  IF e.type = "trade_executed"
  THEN [type |-> "trade", symbol |-> e.symbol, by |-> e.by, tradeId |-> e.tradeId]
  ELSE [type |-> "orderbook", symbol |-> e.symbol, by |-> e.by]

\* broadcastToSubscribers without the test of the subscriptions: every
\* client is sent every message.
broadcastToEveryone(cl, emitted) ==
  [id \in DOMAIN cl |->
     [cl[id] EXCEPT
        !.received = @ \o [i \in 1..Len(emitted) |-> MessageOf(emitted[i])]]]

\* broadcastToSubscribers for each of the events `emitted`, in order: every
\* client whose subscriptions hold the channel is sent the message
broadcastToSubscribers(cl, emitted) ==
  [id \in DOMAIN cl |->
     LET mine == SelectSeq(emitted,
                           LAMBDA e : ChannelOf(e) \in cl[id].subscriptions)
     IN [cl[id] EXCEPT
           !.received = @ \o [i \in 1..Len(mine) |-> MessageOf(mine[i])]]]

\* sendToClient of one message
sendToClient(cl, clientId, message) ==
  [cl EXCEPT ![clientId].received = Append(@, message)]

\* wss.on('connection'): a fresh client id, no subscriptions, the
\* connection_established message
connection(clientId) ==
  /\ clientId \notin DOMAIN clients
  /\ clients' = clients @@
       (clientId :> [subscriptions |-> {},
                     received |-> << [type |-> "connection_established"] >>])

\* ws.on('close')
close(clientId) ==
  /\ clientId \in DOMAIN clients
  /\ clients' = [id \in DOMAIN clients \ {clientId} |-> clients[id]]

\* handleSubscribe
handleSubscribe(clientId, channels) ==
  /\ clientId \in DOMAIN clients
  /\ LET subs == clients[clientId].subscriptions \cup channels
     IN clients' = sendToClient(
                     [clients EXCEPT ![clientId].subscriptions = subs],
                     clientId, [type |-> "subscribed", channels |-> subs])

\* handleUnsubscribe
handleUnsubscribe(clientId, channels) ==
  /\ clientId \in DOMAIN clients
  /\ LET subs == clients[clientId].subscriptions \ channels
     IN clients' = sendToClient(
                     [clients EXCEPT ![clientId].subscriptions = subs],
                     clientId, [type |-> "unsubscribed", channels |-> subs])

\* --------------------------------- TradingEngineService and gateway (NX_III)

\* validateOrder of the NX_III service
nx3ValidateOrder(orderData) ==
  IF orderData.quantity <= 0
  THEN [valid |-> FALSE, error |-> "Quantity must be positive"]
  ELSE IF orderData.type = "limit" /\ orderData.price <= 0
  THEN [valid |-> FALSE, error |-> "Limit orders require positive price"]
  ELSE IF orderData.leverage < 1 \/ orderData.leverage > 100
  THEN [valid |-> FALSE, error |-> "Leverage must be between 1 and 100"]
  ELSE [valid |-> TRUE, error |-> ""]

\* new this.orderModel({orderId, ...orderData, status: OPEN}) with the
\* schema defaults
nx3Order(orderData, orderId) ==
  [orderId          |-> orderId,
   userId           |-> orderData.userId,
   symbol           |-> orderData.symbol,
   type             |-> orderData.type,
   side             |-> orderData.side,
   quantity         |-> orderData.quantity,
   price            |-> orderData.price,
   stopPrice        |-> orderData.stopPrice,
   leverage         |-> orderData.leverage,
   filledQuantity   |-> 0,
   averageFillPrice |-> 0,
   status           |-> "open"]

\* server.clients.forEach(client => client.send(message)): every open
\* socket of the server
nx3BroadcastAll(gw, message) ==
  [id \in DOMAIN gw |-> [gw[id] EXCEPT !.received = Append(@, message)]]

\* TradingEngineService.broadcastOrderUpdate
broadcastOrderUpdate(gw, order) ==
  nx3BroadcastAll(gw, [type |-> "order_update", userId |-> order.userId,
                       orderId |-> order.orderId])

\* TradingEngineService.broadcastMarketData
broadcastMarketData(gw, symbol) ==
  nx3BroadcastAll(gw, [type |-> "market_data", symbol |-> symbol])

\* WebSocketGateway.broadcastToUser
broadcastToUser(gw, userId, message) ==
  [id \in DOMAIN gw |->
     IF gw[id].userId = userId
     THEN [gw[id] EXCEPT !.received = Append(@, message)]
     ELSE gw[id]]

\* WebSocketGateway.broadcastUserOrderUpdate
broadcastUserOrderUpdate(gw, userId, order) ==
  broadcastToUser(gw, userId, [type |-> "order_update", userId |-> order.userId,
                               orderId |-> order.orderId])

\* The calls executeTrade(order, price, fillQuantity) of one order, whose
\* body is empty: the arguments of each call are noted in tradeObs and
\* nothing else changes
nx3ExecuteTrades(obs, order, fills) ==
  obs \o [i \in 1..Len(fills) |->
            [sideBefore |-> fills[i].sideBefore, orderId |-> order.orderId,
             side |-> order.side, price |-> fills[i].price,
             quantity |-> fills[i].quantity]]

\* TradingEngineService.placeOrder
nx3PlaceOrder(orderData) ==
  IF ~nx3ValidateOrder(orderData).valid
  THEN /\ response' = Thrown("placeOrder", nx3ValidateOrder(orderData).error)
       /\ UNCHANGED <<orderBooks, orders, tradeObs, gateway, redis>>
  ELSE /\ Len(orders) < MaxNx3Orders
       /\ LET order == nx3Order(orderData, Len(orders) + 1)
              orderBook == orderBooks[order.symbol]
              m == MatchLevels(orderBook[oppositeSide(order)], order.quantity,
                               order, order.type = "limit")
              matched == [orderBook EXCEPT ![oppositeSide(order)] = m.levels]
              rested == IF order.type = "limit" /\ m.remaining > 0
                        THEN [matched EXCEPT ![sameSide(order)] =
                                SetQty(@, order.price,
                                       GetQty(@, order.price) + m.remaining)]
                        ELSE matched
          IN /\ orders' = Append(orders, order)
             /\ IF order.type \in {"limit", "market"}
                THEN /\ orderBooks' = [orderBooks EXCEPT ![order.symbol] = rested]
                     /\ tradeObs' = nx3ExecuteTrades(tradeObs, order, m.fills)
                     /\ redis' = redis
                     /\ gateway' = broadcastMarketData(
                                     broadcastOrderUpdate(gateway, order),
                                     order.symbol)
                     /\ response' = Placed(order, order.quantity - m.remaining)
                ELSE IF order.type = "conditional"
                THEN \* processConditionalOrder: redisService.set(..., 'EX', 24h)
                     /\ redis' = Append(redis, order)
                     /\ gateway' = broadcastMarketData(
                                     broadcastOrderUpdate(gateway, order),
                                     order.symbol)
                     /\ response' = Placed(order, 0)
                     /\ UNCHANGED <<orderBooks, tradeObs>>
                ELSE \* stop_limit, stop_market: the switch's default throws
                     /\ response' = Thrown("placeOrder", "Unsupported order type")
                     /\ UNCHANGED <<orderBooks, tradeObs, gateway, redis>>

\* The key conditional_order:<orderId> expires 24 hours after it was set
nx3Expire(orderId) ==
  /\ \E i \in 1..Len(redis) : redis[i].orderId = orderId
  /\ redis' = SelectSeq(redis, LAMBDA o : o.orderId # orderId)

\* WebSocketGateway.handleConnection: the token is that of a user, or is
\* absent or not verifiable ("none")
handleConnection(clientId, token) ==
  /\ clientId \notin DOMAIN gateway
  /\ IF token \in Users
     THEN gateway' = gateway @@
            (clientId :> [userId |-> token, subscriptions |-> {},
                          received |-> << [type |-> "connected"] >>])
     ELSE gateway' = gateway

\* WebSocketGateway.handleDisconnect
handleDisconnect(clientId) ==
  /\ clientId \in DOMAIN gateway
  /\ gateway' = [id \in DOMAIN gateway \ {clientId} |-> gateway[id]]

\* ------------------------------------------------------------ specification

Init ==
  /\ orderBooks = [pair \in TradedPairs |->
                     [bids |-> <<>>, asks |-> <<>>, lastPrice |-> 0,
                      volume24h |-> 0, high24h |-> 0, low24h |-> 0]]
  /\ orders = <<>>
  /\ trades = <<>>
  /\ tradeObs = <<>>
  /\ wallets = [u \in Users |->
                  [c \in Currencies |->
                     [available |-> InitialDeposit, locked |-> 0]]]
  /\ response = [op |-> "none", ok |-> TRUE, error |-> "", orderId |-> 0,
                 status |-> "", filled |-> 0]
  /\ calls = <<>>
  /\ events = <<>>
  /\ cancels = <<>>
  /\ clients = <<>>
  /\ gateway = <<>>
  /\ redis = <<>>
  /\ walletDocs = [u \in Users |->
                     [c \in ChainCurrencies |->
                        [available |-> InitialDeposit, locked |-> 0]]]
  /\ withdrawals = <<>>
  /\ accounts = [u \in Users |-> [loginAttempts |-> 0, lockUntil |-> 0]]
  /\ now = 0

OrderData(userId, symbol, type, side, quantity, price, flags) ==
  [userId |-> userId, symbol |-> symbol, type |-> type, side |-> side,
   quantity |-> quantity, price |-> price,
   timeInForce |-> flags.timeInForce, postOnly |-> flags.postOnly]

PlaceLimit ==
  \E userId \in Users, symbol \in InputSymbols, side \in {"buy", "sell"},
     quantity \in Quantities \cup {0}, price \in Prices \cup {0} :
       /\ placeOrder(OrderData(userId, symbol, "limit", side, quantity, price,
                               DefaultFlags))
       /\ UNCHANGED <<asyncVars, pushVars, nx3Vars, serviceVars>>

PlaceMarket ==
  \E userId \in Users, symbol \in InputSymbols, side \in {"buy", "sell"},
     quantity \in Quantities :
       /\ placeOrder(OrderData(userId, symbol, "market", side, quantity, 0,
                               DefaultFlags))
       /\ UNCHANGED <<asyncVars, pushVars, nx3Vars, serviceVars>>

Cancel ==
  \E userId \in Users, orderId \in 1..MaxOrders :
    /\ cancelOrder(userId, orderId)
    /\ UNCHANGED <<asyncVars, pushVars, nx3Vars, serviceVars>>

Next == PlaceLimit \/ PlaceMarket \/ Cancel

Spec == Init /\ [][Next]_vars

\* Placements only: the matching loop, the order store and the settlement.
NextMatch == PlaceLimit \/ PlaceMarket

SpecMatch == Init /\ [][NextMatch]_vars

\* Placements of user u1's and u2's limit orders carrying a timeInForce and a
\* postOnly flag, which the schema stores with the order.
PlaceFlagged ==
  \E userId \in Users, symbol \in InputSymbols, side \in {"buy", "sell"},
     quantity \in Quantities, price \in Prices, flags \in AllFlags :
       /\ placeOrder(OrderData(userId, symbol, "limit", side, quantity, price, flags))
       /\ UNCHANGED <<asyncVars, pushVars, nx3Vars, serviceVars>>

NextTif == PlaceFlagged

SpecTif == Init /\ [][NextTif]_vars

\* placeOrder calls that run concurrently: every step is the code of one
\* call between two awaits, and the steps of the calls in flight interleave
\* in any order.
StepQuantities == {1, 2}

StepPrices == {1}

StepPlaceLimit ==
  \E userId \in Users, symbol \in InputSymbols, side \in {"buy", "sell"},
     quantity \in StepQuantities, price \in StepPrices :
       /\ StepCreate(OrderData(userId, symbol, "limit", side, quantity, price,
                               DefaultFlags))
       /\ UNCHANGED <<cancels, pushVars, nx3Vars, serviceVars>>

StepPlaceMarket ==
  \E userId \in Users, symbol \in InputSymbols, side \in {"buy", "sell"},
     quantity \in StepQuantities :
       /\ StepCreate(OrderData(userId, symbol, "market", side, quantity, 0,
                               DefaultFlags))
       /\ UNCHANGED <<cancels, pushVars, nx3Vars, serviceVars>>

\* The continuation of call k after the await it is suspended in
Resume(k) ==
  \/ StepProcess(k)
  \/ StepOrderUpdate(k)
  \/ StepBalances(k)
  \/ StepTradeDone(k)
  \/ StepRemainder(k)

StepResume ==
  \E k \in 1..Len(calls) : Resume(k) /\ UNCHANGED <<cancels, pushVars, nx3Vars, serviceVars>>

NextSteps == StepPlaceLimit \/ StepPlaceMarket \/ StepResume

SpecSteps == Init /\ [][NextSteps]_vars

\* The cancel route called while placeOrder calls are in flight
StepCancel ==
  \E userId \in Users, orderId \in 1..MaxRaceCalls :
    /\ cancelOrder(userId, orderId)
    /\ UNCHANGED <<asyncVars, pushVars, nx3Vars, serviceVars>>

\* The calls started while cancels interleave are fewer, to keep the cancel's
\* interleavings enumerable
RacePlace == Len(orders) < MaxRaceCalls /\ (StepPlaceLimit \/ StepPlaceMarket)

NextRace == RacePlace \/ StepResume \/ StepCancel

SpecRace == Init /\ [][NextRace]_vars

\* The engine with the WebSocketService listening to it: what the engine
\* emits in a step is broadcast in that step.
ClientIds == {"c1"}

\* The events a step emitted
Emitted == SubSeq(events', Len(events) + 1, Len(events'))

PubPlace ==
  Len(orders) < MaxPubCalls /\ (StepPlaceLimit \/ StepPlaceMarket)

PubResume ==
  \E k \in 1..Len(calls) :
    /\ Resume(k)
    /\ clients' = broadcastToSubscribers(clients, Emitted)
    /\ UNCHANGED <<cancels, nx3Vars, serviceVars>>

WsConnection ==
  \E clientId \in ClientIds :
    connection(clientId) /\ UNCHANGED <<storeVars, asyncVars, nx3Vars, serviceVars>>

WsClose ==
  \E clientId \in ClientIds :
    close(clientId) /\ UNCHANGED <<storeVars, asyncVars, nx3Vars, serviceVars>>

WsSubscribe ==
  \E clientId \in ClientIds \cap DOMAIN clients, channels \in SUBSET Channels :
    /\ Len(clients[clientId].received) < MaxReceived
    /\ handleSubscribe(clientId, channels)
    /\ UNCHANGED <<storeVars, asyncVars, nx3Vars, serviceVars>>

WsUnsubscribe ==
  \E clientId \in ClientIds \cap DOMAIN clients, channels \in SUBSET Channels :
    /\ Len(clients[clientId].received) < MaxReceived
    /\ handleUnsubscribe(clientId, channels)
    /\ UNCHANGED <<storeVars, asyncVars, nx3Vars, serviceVars>>

NextPub ==
  PubPlace \/ PubResume \/ WsConnection \/ WsClose \/ WsSubscribe \/ WsUnsubscribe

SpecPub == Init /\ [][NextPub]_vars

\* The NX_III service and its gateway: orders are placed one handler at a
\* time while clients connect with a user's token and disconnect.
\* (updateMarketPrices writes fetchMarketPrice()'s 0 over lastPrice, which
\* is 0 already: it changes nothing.)
Nx3Quantities == {1}

Nx3Prices == {1, 2}

Nx3Leverages == {1, 101}

GatewayClientIds == {"g1"}

Nx3OrderData(userId, symbol, type, side, quantity, price, stopPrice, leverage) ==
  [userId |-> userId, symbol |-> symbol, type |-> type, side |-> side,
   quantity |-> quantity, price |-> price, stopPrice |-> stopPrice,
   leverage |-> leverage]

Nx3PlaceLimit ==
  \E userId \in Users, symbol \in InputSymbols, side \in {"buy", "sell"},
     quantity \in Nx3Quantities, price \in Nx3Prices, leverage \in Nx3Leverages :
       /\ nx3PlaceOrder(Nx3OrderData(userId, symbol, "limit", side, quantity,
                                     price, 0, leverage))
       /\ UNCHANGED <<trades, wallets, asyncVars, pushVars, serviceVars>>

Nx3PlaceMarket ==
  \E userId \in Users, symbol \in InputSymbols, side \in {"buy", "sell"},
     quantity \in Nx3Quantities :
       /\ nx3PlaceOrder(Nx3OrderData(userId, symbol, "market", side, quantity,
                                     0, 0, 1))
       /\ UNCHANGED <<trades, wallets, asyncVars, pushVars, serviceVars>>

\* A conditional (stop) order, or one of type stop_market
Nx3PlaceStop ==
  \E userId \in Users, symbol \in InputSymbols, side \in {"buy", "sell"},
     type \in {"conditional", "stop_market"},
     quantity \in Nx3Quantities, stopPrice \in Nx3Prices :
       /\ nx3PlaceOrder(Nx3OrderData(userId, symbol, type, side, quantity,
                                     0, stopPrice, 1))
       /\ UNCHANGED <<trades, wallets, asyncVars, pushVars, serviceVars>>

Nx3Expire ==
  \E orderId \in 1..MaxNx3Orders :
    /\ nx3Expire(orderId)
    /\ UNCHANGED <<storeVars, asyncVars, pushVars, gateway, serviceVars>>

GwConnect ==
  \E clientId \in GatewayClientIds, token \in Users \cup {"none"} :
    /\ handleConnection(clientId, token)
    /\ UNCHANGED <<storeVars, asyncVars, pushVars, redis, serviceVars>>

GwDisconnect ==
  \E clientId \in GatewayClientIds :
    /\ handleDisconnect(clientId)
    /\ UNCHANGED <<storeVars, asyncVars, pushVars, redis, serviceVars>>

NextNx3 ==
  \/ Nx3PlaceLimit \/ Nx3PlaceMarket \/ Nx3PlaceStop \/ Nx3Expire
  \/ GwConnect \/ GwDisconnect

SpecNx3 == Init /\ [][NextNx3]_vars

\* ------------------------------------------------------- derived quantities

RECURSIVE SumFn(_)
SumFn(f) ==
  IF DOMAIN f = {} THEN 0
  ELSE LET x == CHOOSE y \in DOMAIN f : TRUE
       IN f[x] + SumFn([y \in DOMAIN f \ {x} |-> f[y]])

\* Sum over all users of available + locked of one currency
TotalHeld(c) ==
  SumFn([u \in Users |-> wallets[u][c].available + wallets[u][c].locked])

\* Fees of the trades, in 1/1000 of a unit of currency c
FeesRecorded(c) ==
  SumFn([i \in 1..Len(trades) |->
           IF trades[i].fee.feeCurrency = c
           THEN trades[i].fee.makerFee + trades[i].fee.takerFee
           ELSE 0])

LevelPrices(levels) == {levels[i].price : i \in 1..Len(levels)}

BestBid(book) == CHOOSE p \in LevelPrices(book.bids) :
                   \A q \in LevelPrices(book.bids) : q <= p

BestAsk(book) == CHOOSE p \in LevelPrices(book.asks) :
                   \A q \in LevelPrices(book.asks) : p <= q

\* The step stored one more order document: a placeOrder got past validation
NewOrderStep == Len(orders') = Len(orders) + 1

NewOrder == orders'[Len(orders')]

\* Quantity traded in the step
NewTradedQty ==
  SumFn([i \in (Len(trades) + 1)..Len(trades') |-> trades'[i].quantity])

\* A limit price that trades against the top of the opposite side
Marketable(order, book) ==
  IF order.side = "buy"
  THEN book.asks # <<>> /\ BestAsk(book) <= order.price
  ELSE book.bids # <<>> /\ BestBid(book) >= order.price

\* ------------------------------------------------------------------ claims

\* C1: with no deposit or withdrawal, for every asset the sum over all users
\* of available + locked plus the fees equals what was deposited at the start
\* (amounts in 1/1000 of a unit).
C1_Conservation ==
  \A c \in Currencies :
    1000 * TotalHeld(c) + FeesRecorded(c)
      = 1000 * InitialDeposit * Cardinality(Users)

\* C2: no Trade has the same user as taker and as maker.
C2_NoSelfTrade ==
  \A i \in 1..Len(trades) : trades[i].takerUserId # trades[i].makerUserId

\* C3: after every completed placeOrder one side of the book is empty or the
\* highest bid is strictly below the lowest ask.
C3_NonCrossedBook ==
  \A pair \in DOMAIN orderBooks :
    LET book == orderBooks[pair]
    IN book.bids = <<>> \/ book.asks = <<>> \/ BestBid(book) < BestAsk(book)

\* C4: for every Trade at price p, the maker side held, when the Trade was
\* made, no level of nonzero quantity at a strictly better price than p (lower
\* for asks, which a buy taker consumes; higher for bids).
C4_PricePriority ==
  \A i \in 1..Len(trades) :
    \A j \in 1..Len(tradeObs[i].sideBefore) :
      LET l == tradeObs[i].sideBefore[j]
      IN l.quantity > 0 =>
           IF trades[i].side = "buy"
           THEN l.price >= trades[i].price
           ELSE l.price <= trades[i].price

\* C5: every Trade of a limit taker is made at the price of a level that
\* rested on the opposite side with at least the traded quantity, and that
\* price is <= the limit for a buy taker and >= the limit for a sell taker.
C5_PriceImprovement ==
  \A i \in 1..Len(trades) :
    LET taker == orders[trades[i].takerOrderId]
        side  == tradeObs[i].sideBefore
    IN taker.type = "limit" =>
         /\ \E j \in 1..Len(side) :
              /\ side[j].price = trades[i].price
              /\ side[j].quantity >= trades[i].quantity
         /\ taker.side = "buy"  => trades[i].price <= taker.price
         /\ taker.side = "sell" => trades[i].price >= taker.price

\* A limit taker traded below its buy limit and another above its sell limit.
C5_Witness ==
  /\ \E i \in 1..Len(trades) :
       /\ orders[trades[i].takerOrderId].type = "limit"
       /\ trades[i].side = "buy"
       /\ trades[i].price < orders[trades[i].takerOrderId].price
  /\ \E i \in 1..Len(trades) :
       /\ orders[trades[i].takerOrderId].type = "limit"
       /\ trades[i].side = "sell"
       /\ trades[i].price > orders[trades[i].takerOrderId].price

\* C6: a FOK order trades its full quantity or nothing, and when it trades
\* nothing the book is as it was before the order.
C6_FokAtomic ==
  [][(NewOrderStep /\ NewOrder.timeInForce = "FOK") =>
       \/ NewTradedQty = NewOrder.quantity
       \/ (trades' = trades /\ orderBooks' = orderBooks)]_vars

\* C7: a post-only limit order that is marketable against the top of the
\* opposite side is rejected with WouldCross: no Trade, the book unchanged,
\* no balance changed or held.
C7_PostOnlyRejected ==
  [][(NewOrderStep /\ NewOrder.postOnly /\ NewOrder.type = "limit"
        /\ Marketable(NewOrder, orderBooks[NewOrder.symbol])) =>
       /\ response'.ok = FALSE
       /\ response'.error = "WouldCross"
       /\ trades' = trades
       /\ orderBooks' = orderBooks
       /\ wallets' = wallets]_vars

\* C8: an IOC order leaves the depth of its own side as it was, and ends
\* Filled, or Cancelled with filledQuantity equal to what it traded.
C8_IocNeverRests ==
  [][(NewOrderStep /\ NewOrder.timeInForce = "IOC") =>
       /\ orderBooks'[NewOrder.symbol][sameSide(NewOrder)]
            = orderBooks[NewOrder.symbol][sameSide(NewOrder)]
       /\ NewOrder.status \in {"filled", "cancelled"}
       /\ NewOrder.filledQuantity = NewTradedQty
       /\ NewOrder.status = "filled" <=> NewTradedQty = NewOrder.quantity]_vars

\* C9: a market order adds nothing to the book, and one that the opposite
\* side could not fill in full ends Cancelled.
C9_MarketRemainderCancelled ==
  [][(NewOrderStep /\ NewOrder.type = "market") =>
       /\ orderBooks'[NewOrder.symbol][sameSide(NewOrder)]
            = orderBooks[NewOrder.symbol][sameSide(NewOrder)]
       /\ NewTradedQty < NewOrder.quantity => NewOrder.status = "cancelled"]_vars

\* C10: a cancel that changes an order holding unfilled quantity found it
\* non-terminal and leaves it Cancelled; a Cancelled order is never changed
\* again, and a cancel changes a balance only together with an order that
\* was not terminal (the funds are released once).
C10_CancelIdempotent ==
  [][/\ \A id \in 1..Len(orders) :
          (Len(orders') = Len(orders) /\ orders'[id] # orders[id]
             /\ remainingQuantity(orders[id]) > 0) =>
            /\ orders[id].status \in {"open", "partially_filled"}
            /\ orders'[id].status = "cancelled"
     /\ \A id \in 1..Len(orders) :
          orders[id].status = "cancelled" => orders'[id] = orders[id]
     /\ (Len(orders') = Len(orders) /\ wallets' # wallets) =>
          \E id \in 1..Len(orders) :
            /\ orders[id].status \in {"open", "partially_filled"}
            /\ orders'[id] # orders[id]]_vars

\* C11: every (user, asset) balance has available >= 0 and locked >= 0.
C11_NonNegativeBalances ==
  \A u \in Users, c \in Currencies :
    /\ wallets[u][c].available >= 0
    /\ wallets[u][c].locked >= 0

\* The currency and the amount a limit order has to hold: price * quantity of
\* the quote currency for a buy, quantity of the base currency for a sell
RequiredCurrency(order) ==
  IF order.side = "buy" THEN order.symbol[2] ELSE order.symbol[1]

RequiredAmount(order) ==
  IF order.side = "buy" THEN order.quantity * order.price ELSE order.quantity

\* C12: a stored limit order whose required amount is within the user's
\* available balance has at least that amount moved from available to locked
\* when it is placed and trades nothing; one whose required amount exceeds
\* the available balance is rejected with InsufficientFunds, changes no
\* balance and leaves the book as it was.
C12_FundsReserved ==
  [][(NewOrderStep /\ NewOrder.type = "limit") =>
       LET u == NewOrder.userId
           c == RequiredCurrency(NewOrder)
           r == RequiredAmount(NewOrder)
       IN IF r > wallets[u][c].available
          THEN /\ response'.ok = FALSE
               /\ response'.error = "InsufficientFunds"
               /\ wallets' = wallets
               /\ orderBooks' = orderBooks
          ELSE (response'.ok /\ trades' = trades) =>
                 /\ wallets'[u][c].locked >= wallets[u][c].locked + r
                 /\ wallets'[u][c].available + wallets'[u][c].locked
                      = wallets[u][c].available + wallets[u][c].locked]_vars

\* The step is one placeOrder that made exactly one Trade
OneTradeStep == NewOrderStep /\ Len(trades') = Len(trades) + 1

LastTrade == trades'[Len(trades')]

\* The owner of the resting order a Trade was made against, where it is the
\* one user that has orders resting at the Trade's price
RestingOwners(side, price) ==
  {orders[id].userId : id \in
     {i \in 1..Len(orders) :
        /\ orders[i].type = "limit"
        /\ sameSide(orders[i]) = side
        /\ orders[i].price = price}}

\* C13: a Trade of quantity q at price p takes q*p from the buyer's locked
\* quote balance and adds q to the buyer's available base balance, takes q
\* from the seller's locked base balance and adds q*p to the seller's
\* available quote balance (the fees, which the Trade records and no wallet
\* pays, left aside), whichever of the two is the taker, and changes no other
\* balance.
C13_SettlesBothParties ==
  [][(OneTradeStep
        /\ Cardinality(RestingOwners(oppositeSide(NewOrder), LastTrade.price)) = 1
        /\ NewOrder.userId \notin RestingOwners(oppositeSide(NewOrder), LastTrade.price)) =>
       LET q == LastTrade.quantity
           p == LastTrade.price
           taker == NewOrder.userId
           maker == CHOOSE u \in RestingOwners(oppositeSide(NewOrder), p) : TRUE
           buyer  == IF NewOrder.side = "buy" THEN taker ELSE maker
           seller == IF NewOrder.side = "buy" THEN maker ELSE taker
           base  == NewOrder.symbol[1]
           quote == NewOrder.symbol[2]
           delta(u, c, f) == wallets'[u][c][f] - wallets[u][c][f]
           expected(u, c, f) ==
             (IF u = buyer /\ c = quote /\ f = "locked" THEN 0 - q * p ELSE 0)
             + (IF u = buyer /\ c = base /\ f = "available" THEN q ELSE 0)
             + (IF u = seller /\ c = base /\ f = "locked" THEN 0 - q ELSE 0)
             + (IF u = seller /\ c = quote /\ f = "available" THEN q * p ELSE 0)
       IN \A u \in Users, c \in Currencies, f \in {"available", "locked"} :
            delta(u, c, f) = expected(u, c, f)]_vars

\* C14: an order whose stored status is filled, cancelled or rejected keeps
\* its status and its filledQuantity in every later step, and an order
\* becomes rejected only from open with nothing filled.
C14_TerminalIsFinal ==
  [][\A id \in 1..Len(orders) :
       /\ orders[id].status \in {"filled", "cancelled", "rejected"} =>
            /\ orders'[id].status = orders[id].status
            /\ orders'[id].filledQuantity = orders[id].filledQuantity
       /\ (orders'[id].status = "rejected" /\ orders[id].status # "rejected") =>
            /\ orders[id].status = "open"
            /\ orders[id].filledQuantity = 0]_vars

\* C15: a cancel that succeeds on a limit order with unfilled quantity lowers
\* the depth at the order's price on its side of the book by that quantity
\* (so that no later taker trades against it).
C15_CancelLeavesBook ==
  [][\A id \in 1..Len(orders) :
       (/\ response'.op = "cancel"
        /\ response'.ok
        /\ Len(orders') = Len(orders)
        /\ orders'[id] # orders[id]
        /\ orders[id].type = "limit"
        /\ remainingQuantity(orders[id]) > 0) =>
         LET o == orders[id]
         IN GetQty(orderBooks'[o.symbol][sameSide(o)], o.price)
              = GetQty(orderBooks[o.symbol][sameSide(o)], o.price)
                  - remainingQuantity(o)]_vars

\* The events the engine emitted for the subscribers of a symbol
MarketEvents ==
  SelectSeq(events, LAMBDA e : e.type \in {"trade_executed", "orderbook_update"})

\* The calls whose order was stored, in the order of their acceptance
Accepted(a, b) == calls[a].order.orderId < calls[b].order.orderId

\* C16 (events): the trades and book updates of an order accepted earlier
\* are all emitted before those of an order accepted later.
C16_EventsInAcceptOrder ==
  \A i, j \in 1..Len(MarketEvents) :
    i < j => MarketEvents[i].by <= MarketEvents[j].by

\* C16 (matching): an order starts to match only after every order accepted
\* before it has returned, so it matches against the book they left.
C16_NoInterleaving ==
  \A a, b \in 1..Len(calls) :
    (Accepted(a, b) /\ calls[b].pc # "process") => calls[a].pc = "done"

\* C16: for one symbol the events come in the order in which their orders
\* were accepted, and the matching of two orders does not interleave.
C16_SerialMatching == C16_EventsInAcceptOrder /\ C16_NoInterleaving

\* The call that processes order orderId
CallOf(orderId) ==
  CHOOSE k \in 1..Len(calls) : calls[k].order.orderId = orderId

\* The trade and book messages a client has been sent, in order
MarketMessages(id) ==
  SelectSeq(clients[id].received, LAMBDA m : m.type \in {"trade", "orderbook"})

\* C17: a client subscribed to a symbol's book channel that has been sent a
\* trade of a matching step has been sent that step's book update too, unless
\* the step ended while the client was not subscribed (no state shows the
\* trade of a running step without its book update), and the messages of one
\* step are not separated by a message of another step.
C17_StepAtomic ==
  \A id \in DOMAIN clients :
    LET r == MarketMessages(id)
    IN /\ \A i \in 1..Len(r) :
            (/\ r[i].type = "trade"
             /\ OrderbookChannel(r[i].symbol) \in clients[id].subscriptions
             /\ ~\E j \in 1..Len(r) :
                   r[j].type = "orderbook" /\ r[j].by = r[i].by) =>
              calls[CallOf(r[i].by)].pc = "done"
       /\ \A i, j, k \in 1..Len(r) :
            (i < j /\ j < k /\ r[i].by = r[k].by) => r[j].by = r[i].by

\* C18: every order update or balance update a connected client has been
\* sent belongs to the user the client authenticated as.
C18_OwnUpdatesOnly ==
  \A id \in DOMAIN gateway :
    \A i \in 1..Len(gateway[id].received) :
      LET m == gateway[id].received[i]
      IN m.type \in {"order_update", "balance_update"} =>
           m.userId = gateway[id].userId

\* C19: every trade and book-update event carries a seq, and the seq of each
\* event of a symbol is the seq of the symbol's previous event plus one.
C19_SeqGapless ==
  \A i \in 1..Len(MarketEvents) :
    /\ "seq" \in DOMAIN MarketEvents[i]
    /\ \A j \in 1..(i - 1) :
         (/\ MarketEvents[j].symbol = MarketEvents[i].symbol
          /\ \A k \in (j + 1)..(i - 1) :
               MarketEvents[k].symbol # MarketEvents[i].symbol) =>
           MarketEvents[i].seq = MarketEvents[j].seq + 1

\* The trigger of a stop order at a trade price: a sell stop is triggered by
\* a price at or below its stopPrice, a buy stop by one at or above
Triggered(stop, price) ==
  IF stop.side = "sell" THEN price <= stop.stopPrice ELSE price >= stop.stopPrice

\* The executeTrade calls made in the step
NewFills == SubSeq(tradeObs', Len(tradeObs) + 1, Len(tradeObs'))

\* C20: a stop order waiting in the store when a trade of its symbol is made
\* at a price that meets its trigger is taken from the store in that step and
\* re-submitted (a further order document is stored for it); it does not
\* stay dormant.
C20_StopTriggered ==
  [][\A i \in 1..Len(redis) :
       (\E j \in 1..Len(NewFills) :
          /\ orders'[NewFills[j].orderId].symbol = redis[i].symbol
          /\ Triggered(redis[i], NewFills[j].price)) =>
         /\ \A k \in 1..Len(redis') : redis'[k].orderId # redis[i].orderId
         /\ Len(orders') >= Len(orders) + 2]_vars

\* ---------------------------------------------------------------------------
\* Intents of any shape handed to placeOrder: a pair the engine has no book
\* for, quantities and prices that are not positive, a leverage outside the
\* schema's range.
UnknownPair == <<"FOO", "USDT">>

IntentSymbols == {BTCUSDT, UnknownPair}

\* A well-formed intent: quantity 1, leverage 1, a limit order at price 1
GoodIntents ==
  { [userId |-> userId, symbol |-> BTCUSDT, type |-> type, side |-> side,
     quantity |-> 1, price |-> IF type = "limit" THEN 1 ELSE 0,
     timeInForce |-> DefaultFlags.timeInForce,
     postOnly |-> DefaultFlags.postOnly, leverage |-> 1] :
      userId \in Users, type \in {"limit", "market"}, side \in {"buy", "sell"} }

BadQuantities == {-1, 0}

BadLeverages == {0, 101}

\* The well-formed intents and those with one field off
Intents ==
  GoodIntents
    \cup { [g EXCEPT !.symbol = UnknownPair] : g \in GoodIntents }
    \cup { [g EXCEPT !.quantity = q] : g \in GoodIntents, q \in BadQuantities }
    \cup { [g EXCEPT !.price = 0] : g \in GoodIntents }
    \cup { [g EXCEPT !.leverage = l] : g \in GoodIntents, l \in BadLeverages }

\* The order documents stored while intents of any shape are placed
MaxIntentOrders == 2

PlaceIntent ==
  \E orderData \in Intents :
    /\ Len(orders) < MaxIntentOrders
    /\ placeOrder(orderData)
    /\ UNCHANGED <<asyncVars, pushVars, nx3Vars, serviceVars>>

NextInput == PlaceIntent

SpecInput == Init /\ [][NextInput]_vars

\* The intents claim C21 names: a quantity that is not positive, a limit
\* order without a positive price, a pair without a book, a leverage outside
\* 1..100.
BadIntent(orderData) ==
  \/ orderData.quantity <= 0
  \/ orderData.type = "limit" /\ orderData.price <= 0
  \/ orderData.symbol \notin supportedPairs
  \/ orderData.leverage < 1
  \/ orderData.leverage > 100

\* C21: placeOrder answers every such intent with an error, and the call
\* neither records a Trade nor changes a book.
C21_InvalidRejected ==
  [][\A orderData \in Intents :
       (BadIntent(orderData) /\ placeOrder(orderData)) =>
          /\ ~response'.ok
          /\ trades' = trades
          /\ orderBooks' = orderBooks]_vars

\* An intent with a leverage out of range has just been refused while the
\* book held an ask it could have traded with.
C21_Witness ==
  /\ response.op = "placeOrder"
  /\ ~response.ok
  /\ response.error = "Order validation failed"
  /\ orderBooks[BTCUSDT].asks # <<>>

\* The input errors claim C22 names, among the intents placed: a pair without
\* a book, a quantity or a limit price that is not positive.
InputError(orderData) ==
  \/ orderData.symbol \notin supportedPairs
  \/ orderData.quantity <= 0
  \/ orderData.type = "limit" /\ orderData.price <= 0

\* C22: a placeOrder that fails on an input error stores no order document,
\* changes no book and changes no balance.
C22_NoSideEffects ==
  [][\A orderData \in Intents :
       (InputError(orderData) /\ placeOrder(orderData)) =>
          /\ ~response'.ok
          /\ orders' = orders
          /\ orderBooks' = orderBooks
          /\ wallets' = wallets]_vars

\* ---------------------------------------------------------------------------
\* The cancel route, one await at a time: Order.findOne, order.save(),
\* Wallet.updateOne.  A request in flight holds the document it loaded.

\* router.delete('/order/:orderId') up to and including `await Order.findOne`
\* and the two tests on the loaded document
cancelFind(userId, orderId) ==
  IF ~(orderId \in 1..Len(orders) /\ orders[orderId].userId = userId)
  THEN /\ response' = Thrown("cancel", "Order not found")
       /\ UNCHANGED <<orderBooks, orders, trades, wallets, tradeObs, cancels>>
  ELSE IF orders[orderId].status # "open"
  THEN /\ response' = Thrown("cancel", "Only open orders can be cancelled")
       /\ UNCHANGED <<orderBooks, orders, trades, wallets, tradeObs, cancels>>
  ELSE /\ cancels' = Append(cancels, [pc |-> "found", userId |-> userId,
                                      order |-> orders[orderId]])
       /\ UNCHANGED <<orderBooks, orders, trades, wallets, tradeObs, response>>

\* order.status = 'cancelled'; await order.save(): the pre-save hook runs on
\* the loaded document, and the modified path (status) is written
cancelSave(k) ==
  /\ cancels[k].pc = "found"
  /\ LET doc == preSave([cancels[k].order EXCEPT !.status = "cancelled"])
     IN /\ orders' = [orders EXCEPT ![doc.orderId].status = doc.status]
        /\ cancels' = [cancels EXCEPT ![k].pc = "saved", ![k].order = doc]
  /\ UNCHANGED <<orderBooks, trades, wallets, tradeObs, response>>

\* await Wallet.updateOne($inc by order.remainingQuantity of the loaded
\* document) and the answer
cancelRelease(k) ==
  /\ cancels[k].pc = "saved"
  /\ LET order == cancels[k].order
         baseCurrency == order.symbol[1]
     IN wallets' = [wallets EXCEPT
                      ![cancels[k].userId][baseCurrency].available =
                         @ + remainingQuantity(order),
                      ![cancels[k].userId][baseCurrency].locked =
                         @ - remainingQuantity(order)]
  /\ cancels' = [cancels EXCEPT ![k].pc = "done"]
  /\ response' = [op |-> "cancel", ok |-> TRUE, error |-> "",
                  orderId |-> 0, status |-> "", filled |-> 0]
  /\ UNCHANGED <<orderBooks, orders, trades, tradeObs>>

\* The cancel requests started while placeOrder calls are in flight
MaxCancelCalls == 1

CancelFind ==
  \E userId \in Users, orderId \in 1..MaxRaceCalls :
    /\ Len(cancels) < MaxCancelCalls
    /\ cancelFind(userId, orderId)
    /\ UNCHANGED <<calls, events, pushVars, nx3Vars, serviceVars>>

CancelResume ==
  \E k \in 1..Len(cancels) :
    /\ cancelSave(k) \/ cancelRelease(k)
    /\ UNCHANGED <<calls, events, pushVars, nx3Vars, serviceVars>>

NextCancelRace == RacePlace \/ StepResume \/ CancelFind \/ CancelResume

SpecCancelRace == Init /\ [][NextCancelRace]_vars

\* What the cancel request k credits to its user's available base balance in
\* the step that takes it from saved to done
Released(k) ==
  LET order == cancels[k].order
  IN wallets'[cancels[k].userId][order.symbol[1]].available
       - wallets[cancels[k].userId][order.symbol[1]].available

\* C23: when a cancel releases an order's funds while the order is being
\* filled, the quantity stored as filled plus the quantity released is at
\* most the order's quantity, and a cancel resolved on an order that is
\* already filled changes neither its stored status nor a balance.
C23_CancelFillRace ==
  [][\A k \in 1..Len(cancels) :
       (cancels[k].pc = "saved" /\ cancels'[k].pc = "done") =>
          LET id == cancels[k].order.orderId
          IN /\ orders'[id].filledQuantity + Released(k) <= orders'[id].quantity
             /\ orders[id].filledQuantity >= orders[id].quantity =>
                  /\ wallets' = wallets
                  /\ orders'[id].status = "filled"]_vars

\* C24: a limit buy of quantity q at price p placed on a book that holds
\* exactly one sell order, another user's, of quantity q at p, yields exactly one Trade of q at
\* p, leaves the book empty, and leaves both orders stored as filled.
C24_InclusiveBoundary ==
  [][(/\ Len(orders) = 1
      /\ orders[1].type = "limit"
      /\ orders[1].side = "sell"
      /\ orderBooks[orders[1].symbol].asks =
           <<[price |-> orders[1].price, quantity |-> orders[1].quantity]>>
      /\ orderBooks[orders[1].symbol].bids = <<>>
      /\ NewOrderStep
      /\ NewOrder.type = "limit"
      /\ NewOrder.side = "buy"
      /\ NewOrder.symbol = orders[1].symbol
      /\ NewOrder.userId # orders[1].userId
      /\ NewOrder.price = orders[1].price
      /\ NewOrder.quantity = orders[1].quantity)
     => /\ Len(trades') = 1
        /\ trades'[1].quantity = orders[1].quantity
        /\ trades'[1].price = orders[1].price
        /\ orderBooks'[orders[1].symbol].asks = <<>>
        /\ orderBooks'[orders[1].symbol].bids = <<>>
        /\ orders'[1].status = "filled"
        /\ orders'[2].status = "filled"]_vars

\* The two orders stored so far are limit orders of the same side and price
\* that rest whole in the book, the first before the second.
TwoRestingAtOnePrice ==
  /\ Len(orders) = 2
  /\ trades = <<>>
  /\ \A i \in 1..2 : orders[i].type = "limit" /\ orders[i].status = "open"
  /\ orders[1].side = orders[2].side
  /\ orders[1].symbol = orders[2].symbol
  /\ orders[1].price = orders[2].price
  /\ orderBooks[orders[1].symbol][sameSide(orders[1])] =
       <<[price |-> orders[1].price,
          quantity |-> orders[1].quantity + orders[2].quantity]>>

\* C25: a taker (of another user) that takes more than the first of two orders
\* resting at one price emits two Trades, the first of the first order's
\* quantity and naming it as maker, the second naming the second order, which
\* keeps its remainder in the book.
C25_TradePerMaker ==
  [][(/\ TwoRestingAtOnePrice
      /\ NewOrderStep
      /\ NewOrder.side # orders[1].side
      /\ NewOrder.symbol = orders[1].symbol
      /\ NewOrder.userId \notin {orders[1].userId, orders[2].userId}
      /\ NewOrder.type = "limit" =>
           IF NewOrder.side = "buy" THEN NewOrder.price >= orders[1].price
           ELSE NewOrder.price <= orders[1].price
      /\ NewOrder.quantity > orders[1].quantity)
     => LET second == Min(NewOrder.quantity - orders[1].quantity,
                          orders[2].quantity)
        IN /\ Len(trades') = 2
           /\ trades'[1].quantity = orders[1].quantity
           /\ trades'[1].makerOrderId = orders[1].orderId
           /\ trades'[2].quantity = second
           /\ trades'[2].makerOrderId = orders[2].orderId
           /\ GetQty(orderBooks'[orders[1].symbol][sameSide(orders[1])],
                     orders[1].price) = orders[2].quantity - second]_vars

\* Two placeOrder calls, await by await, with nothing else running
NextPair == RacePlace \/ StepResume

SpecPair == Init /\ [][NextPair]_vars

\* The quantity of the Trades in ts whose taker is order id
TakerQuantity(ts, id) ==
  SumFn([i \in 1..Len(ts) |->
           IF ts[i].takerOrderId = id THEN ts[i].quantity ELSE 0])

\* The call k returns in this step
Completes(k) == calls[k].pc # "done" /\ calls'[k].pc = "done"

\* What the step adds to the level of order's own price on its own side
AddedToBook(order) ==
  GetQty(orderBooks'[order.symbol][sameSide(order)], order.price)
    - GetQty(orderBooks[order.symbol][sameSide(order)], order.price)

\* C26: when the placeOrder call of a limit order returns, it answers with the
\* order's id, and the quantity of the order's Trades plus the quantity the
\* call adds to the book at the order's price and side is the order's
\* quantity (all of it when the order has no Trade).
C26_FilledPlusRested ==
  [][\A k \in 1..Len(calls) :
       (Completes(k) /\ calls[k].order.type = "limit") =>
          LET order == calls[k].order
          IN /\ response'.ok
             /\ response'.orderId = order.orderId
             /\ TakerQuantity(trades', order.orderId) + AddedToBook(order)
                  = order.quantity
             /\ TakerQuantity(trades', order.orderId) = 0 =>
                  AddedToBook(order) = order.quantity]_vars

\* A limit order's call has returned after filling a part and resting a part.
C26_Witness ==
  \E k \in 1..Len(calls) :
    /\ calls[k].pc = "done"
    /\ calls[k].order.type = "limit"
    /\ calls[k].remaining > 0
    /\ calls[k].remaining < calls[k].order.quantity
    /\ TakerQuantity(trades, calls[k].order.orderId) > 0
    /\ GetQty(orderBooks[calls[k].order.symbol][sameSide(calls[k].order)],
              calls[k].order.price) > 0

\* The quote amounts a caller may state as the budget of a market buy.  No
\* code reads the field: the order data are spread into the order document
\* and the matching loop looks at the quantity only.
QuoteBudgets == {1, 2}

\* The market buys a caller may place, with the budget stated
BudgetedMarketBuys ==
  { [userId |-> userId, symbol |-> symbol, type |-> "market", side |-> "buy",
     quantity |-> quantity, price |-> 0, stopPrice |-> 0, leverage |-> 1,
     quoteBudget |-> budget] :
      userId \in Users, symbol \in InputSymbols, quantity \in Nx3Quantities,
      budget \in QuoteBudgets }

\* price * quantity summed over the executeTrade calls of the step
QuoteSpent ==
  SumFn([i \in 1..Len(NewFills) |-> NewFills[i].price * NewFills[i].quantity])

\* C27: the fills of a market buy cost, in quote, at most the budget stated
\* for it.
C27_WithinQuoteBudget ==
  [][\A orderData \in BudgetedMarketBuys :
       nx3PlaceOrder(orderData) => QuoteSpent <= orderData.quoteBudget]_vars

\* ---------------------------------------------------------------------------
\* Limit orders that carry a clientOrderId of the caller's choice
ClientOrderIds == {"a", "b"}

TaggedOrders ==
  { [userId |-> userId, symbol |-> BTCUSDT, type |-> "limit", side |-> side,
     quantity |-> 1, price |-> 1,
     timeInForce |-> DefaultFlags.timeInForce,
     postOnly |-> DefaultFlags.postOnly, clientOrderId |-> tag] :
      userId \in Users, side \in {"buy", "sell"}, tag \in ClientOrderIds }

PlaceTagged ==
  \E orderData \in TaggedOrders :
    /\ placeOrder(orderData)
    /\ UNCHANGED <<asyncVars, pushVars, nx3Vars, serviceVars>>

NextClientId == PlaceTagged

SpecClientId == Init /\ [][NextClientId]_vars

\* The stored order of the same user that carries the same clientOrderId
UsedBy(orderData) ==
  { i \in 1..Len(orders) :
      /\ orders[i].userId = orderData.userId
      /\ orders[i].clientOrderId = orderData.clientOrderId }

\* C28: a placement whose clientOrderId the same user has used before is
\* refused with DuplicateClientOrderId and the first order's id, and stores no
\* order, no Trade and changes no balance.
C28_DuplicateClientOrderId ==
  [][\A orderData \in TaggedOrders :
       (UsedBy(orderData) # {} /\ placeOrder(orderData)) =>
          /\ ~response'.ok
          /\ response'.error = "DuplicateClientOrderId"
          /\ response'.orderId \in UsedBy(orderData)
          /\ orders' = orders
          /\ trades' = trades
          /\ wallets' = wallets]_vars

\* A message about the book of symbol, as the service sends it
BookMessage(m, symbol) == m.type = "orderbook" /\ m.symbol = symbol

\* C29: a client subscribed to the book channel of a symbol has received a
\* book message tagged with a seq S for it (the snapshot) before any other
\* book message of the symbol, and every later one carries a seq above S.
C29_SnapshotThenDeltas ==
  \A id \in DOMAIN clients : \A symbol \in TradedPairs :
    OrderbookChannel(symbol) \in clients[id].subscriptions =>
      LET received == clients[id].received
      IN \E j \in 1..Len(received) :
           /\ BookMessage(received[j], symbol)
           /\ "seq" \in DOMAIN received[j]
           /\ \A i \in 1..Len(received) :
                BookMessage(received[i], symbol) =>
                  /\ i >= j
                  /\ i > j => /\ "seq" \in DOMAIN received[i]
                              /\ received[i].seq > received[j].seq

\* The cancel route has just answered success for order id
CancelledStep(id) ==
  /\ response'.op = "cancel"
  /\ response'.ok
  /\ Len(orders') = Len(orders)
  /\ orders[id].status = "open"
  /\ orders'[id].status # "open"

\* What an open limit order still holds: its remaining quantity times its
\* price in the quote currency for a buy, its remaining quantity in the base
\* currency for a sell
OutstandingAmount(order) ==
  IF order.side = "buy" THEN remainingQuantity(order) * order.price
  ELSE remainingQuantity(order)

\* C30: a successful cancel of an open limit order moves the order's
\* outstanding amount, in the currency the order holds, from locked to
\* available for the order's user, and changes no other balance.
C30_CancelReleasesReservation ==
  [][\A id \in 1..Len(orders) :
       (CancelledStep(id) /\ orders[id].type = "limit") =>
          LET order == orders[id]
              amount == OutstandingAmount(order)
              mine(u, c) == u = order.userId /\ c = RequiredCurrency(order)
          IN \A u \in Users, c \in Currencies :
               /\ wallets'[u][c].available - wallets[u][c].available
                    = IF mine(u, c) THEN amount ELSE 0
               /\ wallets'[u][c].locked - wallets[u][c].locked
                    = IF mine(u, c) THEN 0 - amount ELSE 0]_vars

\* The stored limit orders that are not terminal and rest on `side` ("bids" or
\* "asks") of the book of symbol at price
RestingAt(symbol, side, price) ==
  { i \in 1..Len(orders) :
      /\ orders[i].type = "limit"
      /\ orders[i].symbol = symbol
      /\ sameSide(orders[i]) = side
      /\ orders[i].price = price
      /\ orders[i].status \in {"open", "partially_filled"} }

\* C31: for every symbol, side and price, the quantity the book holds at the
\* level is the sum of quantity - filledQuantity over the non-terminal limit
\* orders of that side and price.
C31_DepthIsRestingSum ==
  \A symbol \in TradedPairs, side \in {"bids", "asks"}, price \in Prices :
    GetQty(orderBooks[symbol][side], price) =
      SumFn([i \in RestingAt(symbol, side, price) |->
               remainingQuantity(orders[i])])

\* C32: a placement that makes one Trade raises the taker's stored
\* filledQuantity by the Trade's quantity, and raises by the same quantity the
\* filledQuantity of a stored limit order of the opposite side resting at the
\* Trade's price (the maker), which is stored as filled when that reaches its
\* quantity.
C32_BothOrdersUpdated ==
  [][OneTradeStep =>
       /\ orders'[LastTrade.takerOrderId].filledQuantity = LastTrade.quantity
       /\ \E id \in 1..Len(orders) :
            /\ orders[id].type = "limit"
            /\ orders[id].symbol = LastTrade.symbol
            /\ orders[id].side # LastTrade.side
            /\ orders[id].price = LastTrade.price
            /\ orders'[id].filledQuantity =
                 orders[id].filledQuantity + LastTrade.quantity
            /\ orders'[id].filledQuantity >= orders[id].quantity =>
                 orders'[id].status = "filled"]_vars

withdrawSend(userId, currency, amount) ==
  IF walletDocs[userId][currency].available < amount
  THEN /\ response' = Thrown("withdraw", "Insufficient balance")
       /\ UNCHANGED <<walletDocs, withdrawals>>
  ELSE /\ withdrawals' =
            Append(withdrawals,
                   [pc |-> "sent", userId |-> userId, currency |-> currency,
                    amount |-> amount,
                    available |-> walletDocs[userId][currency].available])
       /\ UNCHANGED <<walletDocs, response>>

\* balance.available -= amount on the loaded document; await wallet.save(),
\* which writes the modified path; the call returns {txHash, newBalance}
withdrawSave(k) ==
  /\ withdrawals[k].pc = "sent"
  /\ LET w == withdrawals[k]
     IN walletDocs' = [walletDocs EXCEPT
                         ![w.userId][w.currency].available =
                            w.available - w.amount]
  /\ withdrawals' = [withdrawals EXCEPT ![k].pc = "done"]
  /\ response' = [op |-> "withdraw", ok |-> TRUE, error |-> "",
                  orderId |-> 0, status |-> "", filled |-> 0]

\* The withdraw calls started
MaxWithdrawCalls == 3

WithdrawCurrencies == {"ETH"}

\* An amount within the deposit and one above it
WithdrawAmounts == {3, 5}

WithdrawSend ==
  \E userId \in Users, currency \in WithdrawCurrencies,
     amount \in WithdrawAmounts :
       /\ Len(withdrawals) < MaxWithdrawCalls
       /\ withdrawSend(userId, currency, amount)
       /\ UNCHANGED <<orderBooks, orders, trades, wallets, tradeObs,
                      asyncVars, pushVars, nx3Vars, accounts, now>>

WithdrawSave ==
  \E k \in 1..Len(withdrawals) :
    /\ withdrawSave(k)
    /\ UNCHANGED <<orderBooks, orders, trades, wallets, tradeObs,
                   asyncVars, pushVars, nx3Vars, accounts, now>>

NextWithdraw == WithdrawSend \/ WithdrawSave

SpecWithdraw == Init /\ [][NextWithdraw]_vars

\* The amount of `currency` the withdraw calls of userId have handed to the
\* chain
Withdrawn(userId, currency) ==
  SumFn([k \in { j \in 1..Len(withdrawals) :
                   /\ withdrawals[j].userId = userId
                   /\ withdrawals[j].currency = currency } |->
           withdrawals[k].amount])

\* C34: whatever the interleaving of the withdraw calls of a user and
\* currency, the amount they send out is at most the available balance the
\* wallet held before them, available is never negative and locked is never
\* lowered.
C34_WithdrawWithinAvailable ==
  \A userId \in Users, currency \in WithdrawCurrencies :
    /\ Withdrawn(userId, currency) <= InitialDeposit
    /\ walletDocs[userId][currency].available >= 0
    /\ walletDocs[userId][currency].locked >= 0

\* The quantity that limit orders have put in the book of symbol on `side`
\* ("bids" or "asks") at price: the remainder of every returned call
Rested(symbol, side, price) ==
  SumFn([k \in 1..Len(calls) |->
           IF /\ calls[k].pc = "done"
              /\ calls[k].order.type = "limit"
              /\ calls[k].order.symbol = symbol
              /\ sameSide(calls[k].order) = side
              /\ calls[k].order.price = price
           THEN calls[k].remaining ELSE 0])

\* The quantity of the Trades that takers made against the level of symbol
\* on `side` at price
TradedAgainst(symbol, side, price) ==
  SumFn([i \in 1..Len(trades) |->
           IF /\ trades[i].symbol = symbol
              /\ trades[i].price = price
              /\ trades[i].side = (IF side = "asks" THEN "buy" ELSE "sell")
           THEN trades[i].quantity ELSE 0])

\* C35: in every state reached by interleaved placeOrder calls, the Trades
\* made against a price level total at most the quantity that orders rested
\* at that level.
C35_NoDoubleFill ==
  \A symbol \in TradedPairs, side \in {"bids", "asks"}, price \in StepPrices :
    TradedAgainst(symbol, side, price) <= Rested(symbol, side, price)

\* The sum of price * quantity over the Trades in ts whose taker is order id
TakerValue(ts, id) ==
  SumFn([i \in 1..Len(ts) |->
           IF ts[i].takerOrderId = id THEN ts[i].price * ts[i].quantity ELSE 0])

\* C36: for every stored order, averageFillPrice * filledQuantity is the sum
\* of price * quantity over the Trades it took.
C36_VolumeWeightedAverage ==
  \A i \in 1..Len(orders) :
    orders[i].averageFillPrice * orders[i].filledQuantity
      = TakerValue(trades, i)

\* C37: every level that a side of a book holds has a quantity above 0: a
\* level that a taker consumed whole is gone, a level consumed in part keeps
\* the difference, and a remainder rests only when it is above 0.
C37_LevelsPositive ==
  \A symbol \in TradedPairs, side \in {"bids", "asks"} :
    \A i \in 1..Len(orderBooks[symbol][side]) :
      orderBooks[symbol][side][i].quantity > 0

\* Every call has returned, and the last order placed took a part of a
\* level, which still holds the rest.
C37_Witness ==
  /\ trades # <<>>
  /\ \A k \in 1..Len(calls) : calls[k].pc = "done"
  /\ LET trade == trades[Len(trades)]
         taker == orders[trade.takerOrderId]
     IN /\ trade.takerOrderId = Len(orders)
        /\ GetQty(orderBooks[trade.symbol][oppositeSide(taker)], trade.price) > 0
        /\ GetQty(orderBooks[trade.symbol][sameSide(taker)], taker.price) = 0

\* -------------------------------------------------- several clients (NX2)

\* The clients that connect, subscribe and unsubscribe side by side
SubscriberIds == {"c1", "c2"}

\* The messages a client is sent at most
MaxInbox == 3

\* The events the engine emits to the service's listeners
EngineEvents ==
  {[type |-> "trade_executed", symbol |-> s, by |-> 1, tradeId |-> 1] :
     s \in InputSymbols}
  \cup {[type |-> "orderbook_update", symbol |-> s, by |-> 1] : s \in InputSymbols}

SubsConnection ==
  \E clientId \in SubscriberIds :
    connection(clientId) /\ UNCHANGED <<storeVars, asyncVars, nx3Vars, serviceVars>>

SubsClose ==
  \E clientId \in SubscriberIds :
    close(clientId) /\ UNCHANGED <<storeVars, asyncVars, nx3Vars, serviceVars>>

SubsSubscribe ==
  \E clientId \in SubscriberIds \cap DOMAIN clients, channels \in SUBSET Channels :
    /\ Len(clients[clientId].received) < MaxInbox
    /\ handleSubscribe(clientId, channels)
    /\ UNCHANGED <<storeVars, asyncVars, nx3Vars, serviceVars>>

SubsUnsubscribe ==
  \E clientId \in SubscriberIds \cap DOMAIN clients, channels \in SUBSET Channels :
    /\ Len(clients[clientId].received) < MaxInbox
    /\ handleUnsubscribe(clientId, channels)
    /\ UNCHANGED <<storeVars, asyncVars, nx3Vars, serviceVars>>

\* TradingEngine.on('trade_executed' / 'orderbook_update'): the listener
\* broadcasts the event on its channel
SubsBroadcast ==
  \E e \in EngineEvents :
    /\ \A id \in DOMAIN clients :
         ChannelOf(e) \in clients[id].subscriptions =>
           Len(clients[id].received) < MaxInbox
    /\ clients' = broadcastToSubscribers(clients, <<e>>)
    /\ UNCHANGED <<storeVars, asyncVars, nx3Vars, serviceVars>>

NextSubs ==
  SubsConnection \/ SubsClose \/ SubsSubscribe \/ SubsUnsubscribe \/ SubsBroadcast

SpecSubs == Init /\ [][NextSubs]_vars

\* C38: a broadcast of an event sends its message to exactly the connected
\* clients whose subscriptions hold the event's channel, and connects or
\* disconnects nobody; an unsubscribe leaves none of the named channels in
\* the client's subscriptions; a subscribe or unsubscribe of one client
\* leaves every other client as it was.
C38_SubscribersOnly ==
  [][/\ \A e \in EngineEvents :
          clients' = broadcastToSubscribers(clients, <<e>>) =>
            /\ DOMAIN clients' = DOMAIN clients
            /\ \A id \in DOMAIN clients :
                 /\ clients'[id].subscriptions = clients[id].subscriptions
                 /\ clients'[id].received =
                      IF ChannelOf(e) \in clients[id].subscriptions
                      THEN Append(clients[id].received, MessageOf(e))
                      ELSE clients[id].received
     /\ \A clientId \in SubscriberIds, channels \in SUBSET Channels :
          /\ handleUnsubscribe(clientId, channels) =>
               clients'[clientId].subscriptions \cap channels = {}
          /\ (handleSubscribe(clientId, channels)
                \/ handleUnsubscribe(clientId, channels)) =>
               /\ DOMAIN clients' = DOMAIN clients
               /\ \A other \in DOMAIN clients \ {clientId} :
                    clients'[other] = clients[other]]_vars

\* Two clients are connected; one has been sent a trade on a channel it is
\* subscribed to, the other has unsubscribed from it and has been sent none.
C38_Witness ==
  /\ DOMAIN clients = SubscriberIds
  /\ \E a, b \in SubscriberIds, s \in InputSymbols :
       /\ TradesChannel(s) \in clients[a].subscriptions
       /\ \E i \in 1..Len(clients[a].received) :
            clients[a].received[i].type = "trade"
       /\ TradesChannel(s) \notin clients[b].subscriptions
       /\ \E i \in 1..Len(clients[b].received) :
            clients[b].received[i].type = "unsubscribed"
       /\ \A i \in 1..Len(clients[b].received) :
            clients[b].received[i].type # "trade"

\* The orders placed before and between the cancels of C39
MaxCancelOrders == 2

CancelPlace == Len(orders) < MaxCancelOrders /\ (PlaceLimit \/ PlaceMarket)

NextCancel == CancelPlace \/ Cancel

SpecCancel == Init /\ [][NextCancel]_vars

\* The caller userId owns the stored order orderId
Owns(userId, orderId) ==
  orderId \in 1..Len(orders) /\ orders[orderId].userId = userId

\* C39: a cancel answers success only when the caller owns the order and
\* the order is open; for an order of another user (or no order) it answers
\* "Order not found", for an own order that is not open it answers "Only
\* open orders can be cancelled", and a cancel that fails leaves the orders,
\* the balances and the book as they were.
C39_CancelOwnOpenOnly ==
  [][\A userId \in Users, orderId \in 1..MaxOrders :
       cancelOrder(userId, orderId) =>
         /\ response'.ok =>
              Owns(userId, orderId) /\ orders[orderId].status = "open"
         /\ ~Owns(userId, orderId) =>
              ~response'.ok /\ response'.error = "Order not found"
         /\ (Owns(userId, orderId) /\ orders[orderId].status # "open") =>
              /\ ~response'.ok
              /\ response'.error = "Only open orders can be cancelled"
         /\ ~response'.ok =>
              /\ orders' = orders
              /\ wallets' = wallets
              /\ orderBooks' = orderBooks]_vars

\* A cancel has just failed while the store holds an open order of another
\* user and an order that is no longer open.
C39_Witness ==
  /\ response.op = "cancel"
  /\ ~response.ok
  /\ \E a, b \in 1..Len(orders) :
       /\ orders[a].status = "open"
       /\ orders[b].status # "open"
       /\ orders[a].userId # orders[b].userId

\* ------------------------------------------------ AuthService.login (NX2)

\* incrementLoginAttempts: `this.loginAttempts + 1 >= 5`
MaxLoginAttempts == 5

\* incrementLoginAttempts: the lock lasts 2 hours; the clock `now` counts
\* hours
LockTime == 2

\* The hours the clock runs
MaxTime == 6

\* The virtual isLocked; lockUntil 0 stands for an absent lockUntil
isLocked(user) == user.lockUntil # 0 /\ user.lockUntil > now

\* incrementLoginAttempts without the lock.
incrementLoginAttemptsNoLock(user) ==
  IF user.lockUntil # 0 /\ user.lockUntil < now
  THEN [loginAttempts |-> 1, lockUntil |-> 0]
  ELSE [user EXCEPT !.loginAttempts = @ + 1]

\* incrementLoginAttempts: the document after its updateOne
incrementLoginAttempts(user) ==
  IF user.lockUntil # 0 /\ user.lockUntil < now
  THEN [loginAttempts |-> 1, lockUntil |-> 0]
  ELSE IF user.loginAttempts + 1 >= MaxLoginAttempts
  THEN [loginAttempts |-> user.loginAttempts + 1, lockUntil |-> now + LockTime]
  ELSE [user EXCEPT !.loginAttempts = @ + 1]

\* The answer {success: true, user, token}
LoggedIn ==
  [op |-> "login", ok |-> TRUE, error |-> "", orderId |-> 0, status |-> "",
   filled |-> 0]

\* AuthService.login for the e-mail of a user, or of nobody, with a password
\* that checkPassword finds valid or not.  The locked answer also tells the
\* minutes left, which are not modelled.
login(email, isPasswordValid) ==
  IF email \notin Users
  THEN /\ response' = Thrown("login", "Invalid email or password")
       /\ UNCHANGED accounts
  ELSE IF isLocked(accounts[email])
  THEN /\ response' = Thrown("login", "Account temporarily locked")
       /\ UNCHANGED accounts
  ELSE IF ~isPasswordValid
  THEN /\ accounts' = [accounts EXCEPT ![email] = incrementLoginAttempts(@)]
       /\ response' = Thrown("login", "Invalid email or password")
  ELSE /\ accounts' = [accounts EXCEPT
                         ![email] = [loginAttempts |-> 0, lockUntil |-> 0]]
       /\ response' = LoggedIn

Emails == Users \cup {"nobody"}

Login ==
  \E email \in Emails, isPasswordValid \in BOOLEAN :
    /\ login(email, isPasswordValid)
    /\ UNCHANGED <<orderBooks, orders, trades, wallets, tradeObs, asyncVars,
                   pushVars, nx3Vars, walletDocs, withdrawals, now>>

\* An hour passes
Tick ==
  /\ now < MaxTime
  /\ now' = now + 1
  /\ UNCHANGED <<storeVars, asyncVars, pushVars, nx3Vars, walletDocs,
                 withdrawals, accounts>>

NextLogin == Login \/ Tick

SpecLogin == Init /\ [][NextLogin]_vars

\* C40: a login to an account whose lock is in force fails, even with the
\* valid password, and leaves the account as it was; otherwise a login with
\* a wrong password fails and, when a lock lies in the past, sets
\* loginAttempts to 1 and clears the lock, and else adds 1 to loginAttempts,
\* the account being locked until 2 hours from now exactly when that makes 5
\* or more; otherwise the login succeeds and sets loginAttempts to 0.
C40_LoginLockout ==
  [][\A email \in Users, isPasswordValid \in BOOLEAN :
       login(email, isPasswordValid) =>
         LET user == accounts[email]
             after == accounts'[email]
         IN IF user.lockUntil > now
            THEN ~response'.ok /\ after = user
            ELSE IF ~isPasswordValid
            THEN /\ ~response'.ok
                 /\ IF user.lockUntil # 0 /\ user.lockUntil < now
                    THEN after.loginAttempts = 1 /\ after.lockUntil = 0
                    ELSE /\ after.loginAttempts = user.loginAttempts + 1
                         /\ after.loginAttempts >= 5 =>
                              after.lockUntil = now + 2
                         /\ after.loginAttempts < 5 => after.lockUntil = 0
            ELSE /\ response'.ok
                 /\ after.loginAttempts = 0
                 /\ after.lockUntil = 0]_vars

\* A login has just been refused for the lock of an account that five
\* failures locked.
C40_Witness ==
  /\ response.op = "login"
  /\ response.error = "Account temporarily locked"
  /\ \E email \in Users :
       /\ accounts[email].loginAttempts = 5
       /\ accounts[email].lockUntil > now

====
